---- MODULE Spec2Model ----
(***************************************************************************)
(* Model of examples/loop-refinement/AlchemicalLoopSoftening.py:           *)
(* the constructor LoopSoftening.__init__ (atom selection, alchemical      *)
(* factory, the two-phase ladder of thermodynamic states, the call of      *)
(* minimize, the sampler set-up) and the function minimize.                *)
(*                                                                         *)
(* The simulation engine (OpenMM), mdtraj and the alchemical factory are   *)
(* external: what they return is a nondeterministic choice from small      *)
(* sets, and every engine call of minimize may raise.  Python floats are   *)
(* modelled as exact rationals (records num/den), so rounding in the last  *)
(* bit of 1.0 - state/25.0 is not represented.                             *)
(***************************************************************************)
EXTENDS Integers, Sequences, FiniteSets

VARIABLES
    pc,                   \* position in __init__ / minimize
    self_system,          \* self.system: id of a system object
    self_positions,       \* self.positions (from the modeller)
    sys_positions,        \* attribute `positions` of each system object: <<>> unset, <<p>> set
    factory,              \* <<>> or <<[reference_system, ligand_atoms]>>
    xi,                   \* index into res_pairs of the pair being processed
    start,                \* local `start` of the atom-selection loop
    end,                  \* local `end` of the atom-selection loop
    alchemical_atoms,     \* local set alchemical_atoms
    thermodynamic_states, \* self.thermodynamic_states
    state,                \* loop variable `state` of the two ladder loops
    testsystem,           \* minimize's parameter testsystem (<<>> before the call)
    positions,            \* minimize's parameter positions (<<>> before the call)
    integrator,           \* TRUE while minimize's local integrator is bound
    context,              \* <<>> or <<[system, positions]>>: minimize's local context
    iteration,            \* loop variable of the dynamics loop
    potential_energy,     \* local potential_energy (<<>> before the first block)
    retval,               \* what minimize returned: <<>> is None
    stdout,               \* lines printed: the text and its integer arguments; the
                          \* formatted energy of a line is left out
    calls,                \* engine calls made by minimize, in order
    created,              \* number of execution contexts created
    released,             \* number of execution contexts destroyed
    exc,                  \* "none" or the exception that left minimize
    sampler_state,        \* <<>> or <<[positions]>>
    thermodynamic_state_index

vars == <<pc, self_system, self_positions, sys_positions, factory, xi, start, end,
          alchemical_atoms, thermodynamic_states, state, testsystem, positions,
          integrator, context, iteration, potential_energy, retval, stdout, calls,
          created, released, exc, sampler_state, thermodynamic_state_index>>

(* ------------------------------ bounds --------------------------------- *)
MaxAtom == 1
MaxPos == 1

Atoms == 0..MaxAtom
Positions == 0..MaxPos
\* a potential energy read back from the engine is a finite float or not
Energies == {"finite", "nonfinite"}

(* ------------------------- program constants --------------------------- *)
res_pairs == << <<403, 483>>, <<1052, 1109>> >>
Phase1Stop == 26
Phase2Start == 1
Phase2Stop == 26
LadderDenominator == 25
temperature == 300
MAX_STEPS == 200
niterations == 10
nsteps_per_iteration == 50

(* ------------------------------ floats --------------------------------- *)
Float(n) == [num |-> n, den |-> 1]
FloatDiv(a, b) == [num |-> a.num * b.den, den |-> a.den * b.num]
FloatSub(a, b) == [num |-> a.num * b.den - b.num * a.den, den |-> a.den * b.den]
FloatEq(a, b) == a.num * b.den = b.num * a.den
FloatLt(a, b) == a.num * b.den < b.num * a.den
TOL == [num |-> 90, den |-> 100]

PyRange(a, b) == a..(b - 1)
\* the first value a for loop takes from a non-empty range
RangeFirst(r) == CHOOSE x \in r : \A y \in r : x <= y

(* ------------------------- atom selection ------------------------------ *)
\* alchemical_atoms.union(set(range(start, end))): set.union builds a new set
\* and the statement drops it; the operator gives alchemical_atoms afterwards.
UnionStatement_Update(atoms, s, e) == atoms \cup PyRange(s, e)
UnionStatement(atoms, s, e) ==
    LET result == atoms \cup PyRange(s, e)
    IN  atoms

(* ----------------------------- ladder ---------------------------------- *)
Phase1States_Short == PyRange(0, Phase1Stop - 1)
Phase1States == PyRange(0, Phase1Stop)
Phase2States_FromZero == PyRange(0, Phase2Stop)
Phase2States == PyRange(Phase2Start, Phase2Stop)

Phase1Parameters_Sterics(s) ==
    [lambda_sterics |-> FloatSub(Float(1), FloatDiv(Float(s), Float(LadderDenominator))),
     lambda_electrostatics |-> Float(1)]
Phase1Parameters(s) ==
    [lambda_sterics |-> Float(1),
     lambda_electrostatics |-> FloatSub(Float(1), FloatDiv(Float(s), Float(LadderDenominator)))]

Phase2Parameters_Charged(s) ==
    [lambda_sterics |-> FloatSub(Float(1), FloatDiv(Float(s), Float(LadderDenominator))),
     lambda_electrostatics |-> Float(1)]
Phase2Parameters(s) ==
    [lambda_sterics |-> FloatSub(Float(1), FloatDiv(Float(s), Float(LadderDenominator))),
     lambda_electrostatics |-> Float(0)]

ThermodynamicState(sys, temp, params) ==
    [system |-> sys, temperature |-> temp, parameters |-> params]

(* ------------------------------- Init ---------------------------------- *)
\* The state at line 100: the base system and the solvated positions exist,
\* alchemical_atoms is the empty set.
Init ==
    /\ pc = "atoms"
    /\ self_system = "base"
    /\ self_positions \in Positions
    /\ sys_positions = [s \in {"base", "alchemical"} |-> << >>]
    /\ factory = << >>
    /\ xi = 1
    /\ start = << >>
    /\ end = << >>
    /\ alchemical_atoms = {}
    /\ thermodynamic_states = << >>
    /\ state = << >>
    /\ testsystem = << >>
    /\ positions = << >>
    /\ integrator = FALSE
    /\ context = << >>
    /\ iteration = << >>
    /\ potential_energy = << >>
    /\ retval = << >>
    /\ stdout = << >>
    /\ calls = << >>
    /\ created = 0
    /\ released = 0
    /\ exc = "none"
    /\ sampler_state = << >>
    /\ thermodynamic_state_index = << >>

minimize_vars == <<testsystem, positions, integrator, context, iteration,
                   potential_energy, retval, calls, created, released, exc>>
sampler_vars == <<sampler_state, thermodynamic_state_index>>
atom_vars == <<xi, start, end, alchemical_atoms>>

(* ------------------------ LoopSoftening.__init__ ----------------------- *)
\* lines 101-108: one pass of `for x in res_pairs`; t.top.select gives the atom
\* indices of a residue, the lower residue's atoms coming first in the file.
SelectAtoms ==
    /\ pc = "atoms"
    /\ xi <= Len(res_pairs)
    /\ \E first \in Atoms, last \in Atoms :
          /\ first <= last
          /\ start' = <<first>>
          /\ end' = <<last + 1>>
          /\ alchemical_atoms' = UnionStatement(alchemical_atoms, first, last + 1)
    /\ IF xi < Len(res_pairs)
          THEN /\ xi' = xi + 1
               /\ UNCHANGED <<pc, stdout>>
          ELSE /\ xi' = xi
               /\ pc' = "factory"
               /\ stdout' = Append(stdout, <<"Creating alchemically-modified system...">>)
    /\ UNCHANGED <<self_system, self_positions, sys_positions, factory,
                   thermodynamic_states, state>>
    /\ UNCHANGED minimize_vars
    /\ UNCHANGED sampler_vars

\* lines 112-115
CreateFactory ==
    /\ pc = "factory"
    /\ factory' = <<[reference_system |-> self_system, ligand_atoms |-> alchemical_atoms]>>
    /\ pc' = "perturb"
    /\ UNCHANGED <<self_system, self_positions, sys_positions, thermodynamic_states,
                   state, stdout>>
    /\ UNCHANGED atom_vars
    /\ UNCHANGED minimize_vars
    /\ UNCHANGED sampler_vars

\* what line 116 binds to self.system
PerturbedSystem_KeepBase(old) == old
PerturbedSystem(old) == "alchemical"

\* lines 116-119
CreatePerturbedSystem ==
    /\ pc = "perturb"
    /\ self_system' = PerturbedSystem(self_system)
    /\ stdout' = Append(stdout, <<"Setting up alchemical intermediates...">>)
    /\ thermodynamic_states' = << >>
    /\ state' = <<RangeFirst(Phase1States)>>
    /\ pc' = "phase1"
    /\ UNCHANGED <<self_positions, sys_positions, factory>>
    /\ UNCHANGED atom_vars
    /\ UNCHANGED minimize_vars
    /\ UNCHANGED sampler_vars

\* lines 120-123: one pass of `for state in range(26)`
Phase1 ==
    /\ pc = "phase1"
    /\ state[1] \in Phase1States
    /\ thermodynamic_states' =
          Append(thermodynamic_states,
                 ThermodynamicState(self_system, temperature, Phase1Parameters(state[1])))
    /\ IF state[1] + 1 \in Phase1States
          THEN /\ state' = <<state[1] + 1>>
               /\ pc' = pc
          ELSE /\ state' = <<RangeFirst(Phase2States)>>
               /\ pc' = "phase2"
    /\ UNCHANGED <<self_system, self_positions, sys_positions, factory, stdout>>
    /\ UNCHANGED atom_vars
    /\ UNCHANGED minimize_vars
    /\ UNCHANGED sampler_vars

\* lines 124-127: one pass of `for state in range(1,26)`
Phase2 ==
    /\ pc = "phase2"
    /\ state[1] \in Phase2States
    /\ thermodynamic_states' =
          Append(thermodynamic_states,
                 ThermodynamicState(self_system, temperature, Phase2Parameters(state[1])))
    /\ IF state[1] + 1 \in Phase2States
          THEN /\ state' = <<state[1] + 1>>
               /\ pc' = pc
          ELSE /\ state' = state
               /\ pc' = "call_minimize"
    /\ UNCHANGED <<self_system, self_positions, sys_positions, factory, stdout>>
    /\ UNCHANGED atom_vars
    /\ UNCHANGED minimize_vars
    /\ UNCHANGED sampler_vars

init_vars == <<self_system, self_positions, factory, thermodynamic_states, state>>

\* line 129 and line 15: minimize(self.system, self.positions) is entered
CallMinimize ==
    /\ pc = "call_minimize"
    /\ testsystem' = <<self_system>>
    /\ positions' = <<self_positions>>
    /\ stdout' = Append(stdout, <<"Minimizing...">>)
    /\ pc' = "m_integrator"
    /\ UNCHANGED <<sys_positions, integrator, context, iteration, potential_energy,
                   retval, calls, created, released, exc>>
    /\ UNCHANGED init_vars
    /\ UNCHANGED atom_vars
    /\ UNCHANGED sampler_vars

(* ------------------------------ minimize ------------------------------- *)
Call(name, args) == [name |-> name, args |-> args]
EnergyCall == Call("getPotentialEnergy", << >>)
MinimizeCall == Call("LocalEnergyMinimizer.minimize", <<TOL.num, TOL.den, MAX_STEPS>>)
StepCall == Call("step", <<nsteps_per_iteration>>)

\* the engine call made at each position of minimize
CallAt(p) ==
    CASE p = "m_integrator" -> Call("LangevinIntegrator", << >>)
      [] p = "m_context"    -> Call("Context", << >>)
      [] p = "m_setpos"     -> Call("setPositions", << >>)
      [] p = "m_energy0"    -> EnergyCall
      [] p = "m_minimize"   -> MinimizeCall
      [] p = "m_energy1"    -> EnergyCall
      [] p = "m_step"       -> StepCall
      [] p = "m_energy"     -> EnergyCall
      [] p = "m_update"     -> Call("getPositions", << >>)

EnginePcs == {"m_integrator", "m_context", "m_setpos", "m_energy0", "m_minimize",
              "m_energy1", "m_step", "m_energy", "m_update"}

frame_vars == <<self_system, self_positions, factory, thermodynamic_states, state,
                xi, start, end, alchemical_atoms, sampler_state,
                thermodynamic_state_index, testsystem, positions, retval>>

\* lines 16-37: an engine call raises; minimize has no try/except/finally, so the
\* exception leaves minimize and __init__ at once and line 38 is not run.
EngineRaises ==
    /\ pc \in EnginePcs
    /\ calls' = Append(calls, CallAt(pc))
    /\ exc' = "EngineError"
    /\ pc' = "raised"
    /\ UNCHANGED <<sys_positions, integrator, context, iteration, potential_energy,
                   stdout, created, released>>
    /\ UNCHANGED frame_vars

\* line 16
CreateIntegrator ==
    /\ pc = "m_integrator"
    /\ calls' = Append(calls, CallAt(pc))
    /\ integrator' = TRUE
    /\ pc' = "m_context"
    /\ UNCHANGED <<sys_positions, context, iteration, potential_energy, stdout,
                   created, released, exc>>
    /\ UNCHANGED frame_vars

\* line 17
CreateContext ==
    /\ pc = "m_context"
    /\ calls' = Append(calls, CallAt(pc))
    /\ context' = <<[system |-> testsystem[1], positions |-> << >>]>>
    /\ created' = created + 1
    /\ pc' = "m_setpos"
    /\ UNCHANGED <<sys_positions, integrator, iteration, potential_energy, stdout,
                   released, exc>>
    /\ UNCHANGED frame_vars

\* line 18
SetPositions ==
    /\ pc = "m_setpos"
    /\ calls' = Append(calls, CallAt(pc))
    /\ context' = <<[context[1] EXCEPT !.positions = positions]>>
    /\ pc' = "m_energy0"
    /\ UNCHANGED <<sys_positions, integrator, iteration, potential_energy, stdout,
                   created, released, exc>>
    /\ UNCHANGED frame_vars

\* lines 19-22
InitialEnergy ==
    /\ pc = "m_energy0"
    /\ calls' = Append(calls, CallAt(pc))
    /\ stdout' = Append(stdout, <<"Initial energy is">>)
    /\ pc' = "m_minimize"
    /\ UNCHANGED <<sys_positions, integrator, context, iteration, potential_energy,
                   created, released, exc>>
    /\ UNCHANGED frame_vars

\* line 23: the minimizer moves the context's positions
LocalMinimize ==
    /\ pc = "m_minimize"
    /\ calls' = Append(calls, CallAt(pc))
    /\ \E p \in Positions : context' = <<[context[1] EXCEPT !.positions = <<p>>]>>
    /\ pc' = "m_energy1"
    /\ UNCHANGED <<sys_positions, integrator, iteration, potential_energy, stdout,
                   created, released, exc>>
    /\ UNCHANGED frame_vars

\* the guard of `for iteration in range(niterations)` for the block after `done`
\* completed blocks
LoopGuard_OneMore(done) == done <= niterations
LoopGuard(done) == done < niterations

\* lines 24-30: the minimized energy is printed and the dynamics loop is entered
FinalEnergy ==
    /\ pc = "m_energy1"
    /\ calls' = Append(calls, CallAt(pc))
    /\ stdout' = Append(stdout, <<"Final energy is">>)
    /\ IF LoopGuard(0)
          THEN /\ iteration' = <<0>>
               /\ pc' = "m_step"
          ELSE /\ iteration' = iteration
               /\ pc' = "m_update"
    /\ UNCHANGED <<sys_positions, integrator, context, potential_energy,
                   created, released, exc>>
    /\ UNCHANGED frame_vars

\* line 31: one block of nsteps_per_iteration steps, a single blocking call
DynamicsBlock ==
    /\ pc = "m_step"
    /\ calls' = Append(calls, CallAt(pc))
    /\ \E p \in Positions : context' = <<[context[1] EXCEPT !.positions = <<p>>]>>
    /\ pc' = "m_energy"
    /\ UNCHANGED <<sys_positions, integrator, iteration, potential_energy, stdout,
                   created, released, exc>>
    /\ UNCHANGED frame_vars

\* lines 32-34 and the loop test of line 30
BlockEnergy ==
    /\ pc = "m_energy"
    /\ calls' = Append(calls, CallAt(pc))
    /\ \E e \in Energies : potential_energy' = <<e>>
    /\ stdout' = Append(stdout, <<"Energy after iteration", iteration[1],
                                  nsteps_per_iteration>>)
    /\ IF LoopGuard(iteration[1] + 1)
          THEN /\ iteration' = <<iteration[1] + 1>>
               /\ pc' = "m_step"
          ELSE /\ iteration' = iteration
               /\ pc' = "m_update"
    /\ UNCHANGED <<sys_positions, integrator, context, created, released, exc>>
    /\ UNCHANGED frame_vars

\* what line 37 leaves in the attribute `positions` of the system objects
StorePositions_Skip(attrs, sys, p) == attrs
StorePositions(attrs, sys, p) == [attrs EXCEPT ![sys] = p]

\* line 37
UpdatePositions ==
    /\ pc = "m_update"
    /\ calls' = Append(calls, CallAt(pc))
    /\ sys_positions' = StorePositions(sys_positions, testsystem[1], context[1].positions)
    /\ pc' = "m_del"
    /\ UNCHANGED <<integrator, context, iteration, potential_energy, stdout,
                   created, released, exc>>
    /\ UNCHANGED frame_vars

\* line 38 and the return: the last references to the context and the integrator
\* go, the context is destroyed, minimize returns None
DeleteContext ==
    /\ pc = "m_del"
    /\ context' = << >>
    /\ integrator' = FALSE
    /\ released' = released + 1
    /\ retval' = << >>
    /\ pc' = "samplers"
    /\ UNCHANGED <<sys_positions, iteration, potential_energy, stdout, calls,
                   created, exc, testsystem, positions>>
    /\ UNCHANGED init_vars
    /\ UNCHANGED atom_vars
    /\ UNCHANGED sampler_vars

\* lines 132-145: SamplerState(positions=self.system.positions) reads the
\* attribute minimize stored; without it the read raises AttributeError
SetupSamplers ==
    /\ pc = "samplers"
    /\ stdout' = Append(stdout, <<"Setting up samplers...">>)
    /\ thermodynamic_state_index' = <<0>>
    /\ IF sys_positions[self_system] # << >>
          THEN /\ sampler_state' = <<[positions |-> sys_positions[self_system],
                                      thermodynamic_state |-> thermodynamic_states[1]]>>
               /\ pc' = "done"
               /\ exc' = exc
          ELSE /\ sampler_state' = sampler_state
               /\ pc' = "raised"
               /\ exc' = "AttributeError"
    /\ UNCHANGED <<sys_positions, testsystem, positions, integrator, context, iteration,
                   potential_energy, retval, calls, created, released>>
    /\ UNCHANGED init_vars
    /\ UNCHANGED atom_vars

Next ==
    \/ SelectAtoms
    \/ CreateFactory
    \/ CreatePerturbedSystem
    \/ Phase1
    \/ Phase2
    \/ CallMinimize
    \/ EngineRaises
    \/ CreateIntegrator
    \/ CreateContext
    \/ SetPositions
    \/ InitialEnergy
    \/ LocalMinimize
    \/ FinalEnergy
    \/ DynamicsBlock
    \/ BlockEnergy
    \/ UpdatePositions
    \/ DeleteContext
    \/ SetupSamplers

Spec == Init /\ [][Next]_vars

\* every call is blocking and returns or raises; the script is single-threaded
FairSpec == Spec /\ WF_vars(Next)

TypeOK ==
    /\ self_system \in {"base", "alchemical"}
    /\ self_positions \in Positions
    /\ alchemical_atoms \subseteq 0..(MaxAtom + 1)
    /\ created \in 0..1
    /\ released \in 0..1
    /\ exc \in {"none", "EngineError", "AttributeError"}

(* ============================== claims ================================= *)
LadderPcs == {"atoms", "factory", "perturb", "phase1", "phase2"}
MinimizePcs == EnginePcs \cup {"m_del"}
Built == pc \notin LadderPcs
Lambda(i) == thermodynamic_states[i].parameters
Rational(n, d) == [num |-> n, den |-> d]

\* C1: the ladder holds 2*n_steps + 1 states once Phase 1 (state in 0..n_steps)
\* and Phase 2 (state in 1..n_steps) have run; with n_steps = 25, the value the
\* program uses, thermodynamic_states has exactly 51 entries after construction.
\* While it is built, Phase 1 has added one state per value below `state` and
\* Phase 2 one per value from 1 up to below `state`.
C1_ScheduleLength ==
    /\ pc = "phase1" => Len(thermodynamic_states) = state[1]
    /\ pc = "phase2" => Len(thermodynamic_states) = LadderDenominator + state[1]
    /\ Built => /\ Len(thermodynamic_states) = 2 * LadderDenominator + 1
                /\ Len(thermodynamic_states) = 51

C1_Witness == pc = "call_minimize" /\ Len(thermodynamic_states) = 51

\* C2: the ladder is the reference ladder: entry i in 0..25 is
\* (lambda_sterics = 1, lambda_electrostatics = 1 - i/25), entry i in 26..50 is
\* (lambda_sterics = 1 - (i-25)/25, lambda_electrostatics = 0); the first entry is
\* (1, 1) and the last is (0, 0).  (Entry i is thermodynamic_states[i+1].)
C2_ReferenceLadder ==
    Built =>
        /\ \A i \in 0..25 :
              /\ FloatEq(Lambda(i + 1).lambda_sterics, Rational(1, 1))
              /\ FloatEq(Lambda(i + 1).lambda_electrostatics, Rational(25 - i, 25))
        /\ \A i \in 26..50 :
              /\ FloatEq(Lambda(i + 1).lambda_sterics, Rational(50 - i, 25))
              /\ FloatEq(Lambda(i + 1).lambda_electrostatics, Rational(0, 1))
        /\ Lambda(1).lambda_sterics.num = Lambda(1).lambda_sterics.den
        /\ Lambda(1).lambda_electrostatics.num = Lambda(1).lambda_electrostatics.den
        /\ Lambda(51).lambda_sterics.num = 0
        /\ Lambda(51).lambda_electrostatics.num = 0

C2_Witness ==
    /\ pc = "m_integrator"
    /\ Len(thermodynamic_states) = 51
    /\ FloatEq(Lambda(27).lambda_sterics, Rational(24, 25))

\* C3: between any two adjacent entries of the ladder exactly one coefficient
\* strictly decreases and the other is unchanged, so no two adjacent entries are
\* equal and no coefficient ever increases, the Phase 1 / Phase 2 boundary included.
C3_OneCoefficientDecreases ==
    \A i \in 1..(Len(thermodynamic_states) - 1) :
        LET a == Lambda(i)
            b == Lambda(i + 1)
        IN  \/ /\ FloatLt(b.lambda_electrostatics, a.lambda_electrostatics)
               /\ FloatEq(b.lambda_sterics, a.lambda_sterics)
            \/ /\ FloatLt(b.lambda_sterics, a.lambda_sterics)
               /\ FloatEq(b.lambda_electrostatics, a.lambda_electrostatics)

C3_Witness ==
    /\ pc = "phase2"
    /\ Len(thermodynamic_states) = 27
    /\ FloatLt(Lambda(27).lambda_sterics, Lambda(26).lambda_sterics)

\* C4: electrostatics are fully off before sterics start to fall: every Phase 1
\* entry has lambda_sterics = 1, every Phase 2 entry has lambda_electrostatics = 0,
\* and no entry has lambda_sterics < 1 while lambda_electrostatics > 0.
C4_ElectrostaticsOffFirst ==
    \A i \in 1..Len(thermodynamic_states) :
        /\ i <= Phase1Stop => FloatEq(Lambda(i).lambda_sterics, Float(1))
        /\ i > Phase1Stop => FloatEq(Lambda(i).lambda_electrostatics, Float(0))
        /\ ~ ( /\ FloatLt(Lambda(i).lambda_sterics, Float(1))
               /\ FloatLt(Float(0), Lambda(i).lambda_electrostatics) )

C4_Witness ==
    /\ pc = "done"
    /\ Len(thermodynamic_states) = 51
    /\ FloatLt(Lambda(40).lambda_sterics, Float(1))
    /\ FloatLt(Float(0), Lambda(10).lambda_electrostatics)

BlockLines == {i \in DOMAIN stdout : stdout[i][1] = "Energy after iteration"}
Returned == pc \in {"samplers", "done"}

\* C5 as stated: when no engine call fails, minimize returns to its caller the
\* final positions as the new Configuration together with an EnergyTrace of
\* exactly niterations samples.
C5_ReturnsConfigurationAndTrace ==
    Returned =>
        \E tr \in [1..niterations -> Energies] :
            retval = <<[positions |-> sys_positions[testsystem[1]], trace |-> tr]>>

\* C5 amended: when no engine call fails, minimize returns None; it stores the
\* final positions of the context in the attribute `positions` of the system
\* object it was given, where the caller reads them for the sampler, and it has
\* printed exactly niterations energy lines, one per dynamics block, in block order.
C5_StoresPositionsPrintsTrace ==
    /\ pc = "m_del" => sys_positions[testsystem[1]] = context[1].positions
    /\ pc \in {"m_del", "samplers", "done"} =>
          /\ retval = << >>
          /\ Len(sys_positions[testsystem[1]]) = 1
          /\ sys_positions[testsystem[1]][1] \in Positions
          /\ Cardinality(BlockLines) = niterations
          /\ \A k \in 0..(niterations - 1) :
                \E i \in BlockLines : stdout[i][2] = k
          /\ \A i, j \in BlockLines : i < j => stdout[i][2] < stdout[j][2]
    /\ pc = "done" => sampler_state[1].positions = sys_positions[testsystem[1]]

C5_Witness ==
    /\ pc = "samplers"
    /\ exc = "none"
    /\ Cardinality(BlockLines) = niterations
    /\ sys_positions[testsystem[1]] # << >>

\* C6: the execution context minimize creates is released exactly once on every
\* exit path: when the engine raises during the second dynamics block (block
\* index 1) no later block runs and the context has been released exactly once
\* when minimize exits.
C6_ContextReleasedOnce ==
    ( /\ pc = "raised"
      /\ exc = "EngineError"
      /\ iteration = <<1>>
      /\ calls[Len(calls)].name = "step" )
    => ( /\ created = 1
         /\ released = 1
         /\ context = << >> )

ExpectedCalls ==
    << Call("LangevinIntegrator", << >>), Call("Context", << >>),
       Call("setPositions", << >>), EnergyCall, MinimizeCall, EnergyCall >>
    \o [i \in 1..(2 * niterations) |-> IF i % 2 = 1 THEN StepCall ELSE EnergyCall]
    \o << Call("getPositions", << >>) >>

CallsArePrefix ==
    /\ Len(calls) <= Len(ExpectedCalls)
    /\ \A i \in 1..Len(calls) :
          /\ calls[i].name = ExpectedCalls[i].name
          /\ calls[i].args = ExpectedCalls[i].args

MinimizeLeft == pc \in {"samplers", "done", "raised"}

\* C8 as stated: every run of minimize makes its engine calls in the one fixed
\* order with none skipped, and ends after exactly niterations blocks.
C8_EveryRunCompletesAllBlocks ==
    MinimizeLeft =>
        /\ Len(calls) = Len(ExpectedCalls)
        /\ CallsArePrefix

\* C8 amended: the engine calls of every run of minimize are a prefix of the one
\* fixed order: initial energy read, one local minimization capped at MAX_STEPS,
\* minimized energy read, then niterations blocks of nsteps_per_iteration steps,
\* each followed by its energy read before the next block starts, and the
\* positions read after the last block.  A run in which no engine call raises
\* makes all of these calls and ends after exactly niterations blocks; a run in
\* which an engine call raises ends at that call.  Every run ends.
C8_CallOrderAndTermination ==
    /\ [](/\ CallsArePrefix
          /\ Returned => Len(calls) = Len(ExpectedCalls)
          /\ pc = "raised" => calls[Len(calls)] = ExpectedCalls[Len(calls)])
    /\ <>(pc \in {"done", "raised"})

C8_Witness ==
    /\ pc = "m_del"
    /\ iteration = <<niterations - 1>>
    /\ Len(calls) = 7 + 2 * niterations

\* C9 as stated: minimize is invoked on the base (non-alchemical) system, the
\* system as it was before the factory's perturbed system replaced it, and the
\* ladder has been built when minimize starts.
C9_MinimizeOnBaseSystem ==
    pc \in MinimizePcs =>
        /\ testsystem = <<factory[1].reference_system>>
        /\ Len(thermodynamic_states) = 51

\* C9 amended: minimize is invoked on the perturbed (alchemical) system that
\* createPerturbedSystem returned and that replaced the base system in
\* self.system, the system every state of the ladder holds; the ladder has been
\* built when minimize starts.
C9_MinimizeOnPerturbedSystem ==
    pc \in MinimizePcs =>
        /\ testsystem = <<self_system>>
        /\ testsystem # <<factory[1].reference_system>>
        /\ \A i \in 1..Len(thermodynamic_states) :
              thermodynamic_states[i].system = testsystem[1]
        /\ Len(thermodynamic_states) = 51

C9_Witness ==
    /\ pc = "m_context"
    /\ testsystem = <<"alchemical">>
    /\ factory[1].reference_system = "base"

\* C10: the loop over res_pairs never changes alchemical_atoms (the result of
\* union is dropped), so after any number of residue pairs the set the factory
\* gets as ligand_atoms is the empty set alchemical_atoms started as.
C10_AlchemicalAtomsStayEmpty ==
    /\ alchemical_atoms = {}
    /\ factory # << >> => factory[1].ligand_atoms = {}

C10_Witness ==
    /\ pc = "perturb"
    /\ xi = Len(res_pairs)
    /\ PyRange(start[1], end[1]) # {}
    /\ factory[1].ligand_atoms = {}

====
